---- MODULE Spec2Model ----
(***************************************************************************)
(* Model of crossbar/controller/processtypes.py: WorkerProcess, the         *)
(* controller-side representation of a worker process, and its log()       *)
(* ingestion of the output of the child process.                           *)
(*                                                                         *)
(* A chunk of child output is a sequence of symbols.  A symbol stands for  *)
(* one lexical unit of the byte stream:                                    *)
(*   "M1","M2"  the two halves of the marker cb_logging_aware              *)
(*   "RS"       record_separator                                           *)
(*   "NL"       os.linesep                                                 *)
(*   "SP"       a blank                                                    *)
(*   "a"        a printable ASCII letter                                   *)
(*   "{" "}" "," "1"   JSON punctuation and a JSON number                  *)
(*   "T"  the JSON member  "text": "msg"                                  *)
(*   "L"  the JSON member  "level": "info"                                *)
(*   "W"  the JSON member  "level": "warn"                                *)
(*   "B"  the JSON member  "level": "bogus"  (no such severity)           *)
(*   "N"  the JSON member  "namespace": "ns"                              *)
(*   "X"  the JSON member  "extra": "x"                                   *)
(*   "U1","U2"  the JSON member "text": "<e-acute>", whose only non-ASCII  *)
(*        character is encoded in two bytes: U1 ends with the lead byte,   *)
(*        U2 starts with the continuation byte.  Decoded text holds "U".   *)
(***************************************************************************)
EXTENDS Integers, Sequences, FiniteSets, TLC

VARIABLES
    keeplog,      \* constructor argument keeplog
    status,       \* self.status
    exit_called,  \* self.exit (Deferred): has it fired
    log_rich,     \* self._log_rich: "None", "True" or "False"
    log_data,     \* self._log_data: the accumulation buffer (decoded text)
    log_entries,  \* self._log_entries: deque(maxlen=10)
    sink,         \* what self._logger was given, in order
    published,    \* what self._controller.publish was given, in order
    raised,       \* the exception the last operation raised, or "none"
    returned,     \* the list the last getlog() returned, held by its caller
    pending,      \* child output on fd 2 not yet delivered
    fed,          \* the bytes delivered on fd 2 so far
    richfed,      \* the bytes delivered on fd 2 while self._log_rich was true
    op,           \* the last operation: "init", "log1", "log2", "exit", "getlog",
                  \* or the status the supervisor reported last
    raw,          \* the bytes of the last chunk delivered on fd 1
    budget        \* how many more operations other than log(2, ..) are made

vars == <<keeplog, status, exit_called, log_rich, log_data, log_entries, sink,
          published, raised, returned, pending, fed, richfed, op, raw, budget>>

(***************************************************************************)
(* Bounds of the model.                                                    *)
(***************************************************************************)
\* The longest chunk one call of log(2, ..) is given, in symbols.
MaxChunk == 5

\* The most a child that logs records writes after the marker, in symbols.
MaxStream == 18

\* The most the supervisor reads from fd 2 at once when the child has written
\* several records before it reads, in symbols.
MaxBurst == 16

\* The most operations other than log(2, ..) in one behaviour: log(1, ..),
\* exit notifications, getlog().
MaxOps == 2

(***************************************************************************)
(* Program constants.                                                      *)
(***************************************************************************)
\* deque(maxlen=10)
maxlen == 10

cb_logging_aware == <<"M1", "M2">>

record_separator == "RS"

linesep == "NL"

LevelNames == {"trace", "debug", "info", "warn", "error", "critical"}

None == <<"None">>

EmptyDict == [k \in {} |-> <<>>]

Min(a, b) == IF a < b THEN a ELSE b

Range(s) == {s[i] : i \in 1..Len(s)}

RECURSIVE Concat(_)
Concat(ss) == IF ss = <<>> THEN <<>> ELSE Head(ss) \o Concat(Tail(ss))

First(s, c) == CHOOSE i \in 1..Len(s) : s[i] = c /\ \A j \in 1..(i - 1) : s[j] # c

(***************************************************************************)
(* Library functions log() relies on, each computed as the library does.   *)
(***************************************************************************)

\* bytes.decode('utf8') succeeds: every lead byte is followed by its
\* continuation byte and no continuation byte stands alone.
Utf8Valid(b) ==
    \A i \in 1..Len(b) :
        /\ b[i] = "U1" => (i < Len(b) /\ b[i + 1] = "U2")
        /\ b[i] = "U2" => (i > 1 /\ b[i - 1] = "U1")

\* The text bytes.decode('utf8') returns for valid input.
RECURSIVE Utf8Text(_)
Utf8Text(b) ==
    IF b = <<>> THEN <<>>
    ELSE IF Head(b) = "U1" THEN <<"U">> \o Utf8Text(Tail(Tail(b)))
    ELSE <<Head(b)>> \o Utf8Text(Tail(b))

\* str.split(sep): the segments between the occurrences of sep.
RECURSIVE split(_, _)
split(s, sep) ==
    IF sep \notin Range(s) THEN <<s>>
    ELSE LET i == First(s, sep)
         IN  <<SubSeq(s, 1, i - 1)>> \o split(SubSeq(s, i + 1, Len(s)), sep)

\* str.isspace() of one character: the separators 0x1c..0x1f are white space.
IsSpace(c) == c \in {"SP", "NL", "RS"}

\* str.strip(): without leading and trailing white space.
RECURSIVE lstrip(_)
lstrip(s) == IF s # <<>> /\ IsSpace(Head(s)) THEN lstrip(Tail(s)) ELSE s

RECURSIVE rstrip(_)
rstrip(s) ==
    IF s # <<>> /\ IsSpace(s[Len(s)]) THEN rstrip(SubSeq(s, 1, Len(s) - 1)) ELSE s

strip(s) == rstrip(lstrip(s))

\* repr() of one byte of a chunk: control and non-ASCII bytes are escaped.
ReprByte(c) ==
    CASE c = "NL" -> "\\n"
      [] c = "RS" -> "\\x1e"
      [] c = "U1" -> "\\xc3"
      [] c = "U2" -> "\\xa9"
      [] OTHER -> c

\* repr(data): the chunk quoted, byte by byte.
repr(data) == <<"'">> \o [i \in 1..Len(data) |-> ReprByte(data[i])] \o <<"'">>

\* escape_formatting(text): every brace doubled, so that the text is no
\* format string.
RECURSIVE escape_formatting(_)
escape_formatting(text) ==
    IF text = <<>> THEN <<>>
    ELSE (IF Head(text) \in {"{", "}"} THEN <<Head(text), Head(text)>>
          ELSE <<Head(text)>>) \o escape_formatting(Tail(text))

\* LogLevel.levelWithName(name) finds a level.
IsLevelName(name) == Len(name) = 1 /\ name[1] \in LevelNames

(***************************************************************************)
(* json.loads on the JSON fragment the symbols span: a number, or a flat    *)
(* object of members.                                                       *)
(***************************************************************************)
Members == {"T", "U", "L", "W", "B", "N", "X"}

MemberKey(t) ==
    CASE t \in {"T", "U"} -> "text"
      [] t \in {"L", "W", "B"} -> "level"
      [] t = "N" -> "namespace"
      [] OTHER -> "extra"

MemberValue(t) ==
    CASE t = "T" -> <<"msg">>
      [] t = "U" -> <<"msgU">>
      [] t = "L" -> <<"info">>
      [] t = "W" -> <<"warn">>
      [] t = "B" -> <<"bogus">>
      [] t = "N" -> <<"ns">>
      [] OTHER -> <<"x">>

\* JSON white space between tokens is skipped.
JsonTokens(text) == SelectSeq(text, LAMBDA c : c \notin {"SP", "NL"})

IsJsonObject(t) ==
    /\ Len(t) >= 2
    /\ t[1] = "{"
    /\ t[Len(t)] = "}"
    /\ \/ Len(t) = 2
       \/ /\ Len(t) % 2 = 1
          /\ \A i \in 2..(Len(t) - 1) :
                IF i % 2 = 0 THEN t[i] \in Members ELSE t[i] = ","

\* The dict of an object: of two members with one key the later one wins.
JsonDict(t) ==
    LET at(k) == {i \in 2..(Len(t) - 1) : t[i] \in Members /\ MemberKey(t[i]) = k}
        keys == {MemberKey(t[i]) : i \in {j \in 2..(Len(t) - 1) : t[j] \in Members}}
    IN  [k \in keys |->
            MemberValue(t[CHOOSE i \in at(k) : \A j \in at(k) : j <= i])]

\* json.loads(text): "ValueError", or the value: a number or a dict.
json_loads(text) ==
    LET t == JsonTokens(text)
    IN  IF t = <<"1">> THEN [kind |-> "int", dict |-> EmptyDict]
        ELSE IF IsJsonObject(t) THEN [kind |-> "dict", dict |-> JsonDict(t)]
        ELSE [kind |-> "ValueError", dict |-> EmptyDict]

\* dict.pop(key): the dict without the key.
Pop(d, key) == [k \in (DOMAIN d) \ {key} |-> d[k]]

(***************************************************************************)
(* WorkerProcess.  The methods are functions of the worker w, a record of  *)
(* the fields a method reads or writes; they return the worker afterwards, *)
(* with the exception the call raised, if any, in w.raised.                *)
(***************************************************************************)

\* What a history entry is: a str (raw chunk, plain row) or a dict (event).
StrEntry(s) == [type |-> "str", str |-> s, dict |-> EmptyDict]

DictEntry(d) == [type |-> "dict", str |-> <<>>, dict |-> d]

\* deque(maxlen=10).append(e): a full deque drops its oldest entry.
DequeAppend(q, e) == IF Len(q) < maxlen THEN Append(q, e) ELSE Append(Tail(q), e)

\* One call of self._logger: level, text, cb_namespace, further keywords.
LogEvent(level, text, ns, extra) ==
    [level |-> level, text |-> text, ns |-> ns, extra |-> extra]

Raise(w, exc) == [w EXCEPT !.raised = exc]

\* A plausible slip: the chunk of fd 1 is published like the rows of fd 2.
LogFD1_Published(w, data) ==
    [w EXCEPT !.sink = Append(@, LogEvent("info", repr(data), <<"FD1">>, EmptyDict)),
              !.log_entries = DequeAppend(@, StrEntry(repr(data))),
              !.published = Append(@, repr(data))]

\* A plausible slip: the mode is decided by the first chunk of either fd.
LogFD1_DecidesMode(w, data) ==
    [w EXCEPT !.sink = Append(@, LogEvent("info", repr(data), <<"FD1">>, EmptyDict)),
              !.log_entries = DequeAppend(@, StrEntry(repr(data))),
              !.log_rich = IF @ = "None" THEN "False" ELSE @]

\* log(), childFD == 1: the chunk is repr()-ed, logged and kept.
LogFD1(w, data) ==
    [w EXCEPT !.sink = Append(@, LogEvent("info", repr(data), <<"FD1">>, EmptyDict)),
              !.log_entries = DequeAppend(@, StrEntry(repr(data)))]

\* log(), the try statement: the event of a raw record; a record that is no
\* JSON gives a warning with the record in it.
ParseRecord(log) ==
    LET parsed == json_loads(log)
    IN  IF parsed.kind = "ValueError"
        THEN [kind |-> "dict",
              dict |-> [level |-> <<"warn">>,
                        text |-> <<"INVALID JSON: ">> \o escape_formatting(log)]]
        ELSE parsed

\* A plausible slip: the event is published by the logger's observer and by
\* log() as well.
Emitted_PublishedTwice(w, event) ==
    LET event_text == event["text"]
        event_namespace == IF "namespace" \in DOMAIN event
                           THEN event["namespace"] ELSE None
        rest == Pop(Pop(Pop(event, "text"), "namespace"), "level")
    IN  [w EXCEPT
           !.sink = Append(@, LogEvent(event["level"][1], event_text,
                                       event_namespace, rest)),
           !.log_entries = DequeAppend(@, DictEntry(rest)),
           !.published = Append(Append(@, event_text), event_text)]

\* The event logged, kept and published, its text, namespace and level
\* popped off it.
Emitted(w, event) ==
    LET event_text == event["text"]
        event_namespace == IF "namespace" \in DOMAIN event
                           THEN event["namespace"] ELSE None
        rest == Pop(Pop(Pop(event, "text"), "namespace"), "level")
    IN  [w EXCEPT
           !.sink = Append(@, LogEvent(event["level"][1], event_text,
                                       event_namespace, rest)),
           !.log_entries = DequeAppend(@, DictEntry(rest)),
           !.published = Append(@, event_text)]

\* A plausible slip: an unknown level is logged as a warning instead of raised.
EmitEvent_UnknownLevelWarns(w, parsed) ==
    IF parsed.kind # "dict" THEN Raise(w, "AttributeError")
    ELSE IF "text" \notin DOMAIN parsed.dict THEN Raise(w, "KeyError")
    ELSE IF "level" \notin DOMAIN parsed.dict THEN Raise(w, "KeyError")
    ELSE IF ~IsLevelName(parsed.dict["level"])
         THEN Emitted(w, [parsed.dict EXCEPT !["level"] = <<"warn">>])
    ELSE Emitted(w, parsed.dict)

\* log(), the rest of the loop body: text, namespace and level are popped
\* off the event, the level is looked up, the event logged, kept, published.
EmitEvent(w, parsed) ==
    IF parsed.kind # "dict" THEN Raise(w, "AttributeError")
    ELSE IF "text" \notin DOMAIN parsed.dict THEN Raise(w, "KeyError")
    ELSE IF "level" \notin DOMAIN parsed.dict THEN Raise(w, "KeyError")
    ELSE IF ~IsLevelName(parsed.dict["level"]) THEN Raise(w, "InvalidLogLevelError")
    ELSE Emitted(w, parsed.dict)

\* log(), the body of the while loop after the split: one raw record.
LogRecord(w, log) == EmitEvent(w, ParseRecord(log))

\* log(), the while loop: records are split off the buffer and handled one
\* by one; an exception leaves the loop with the record already split off.
RECURSIVE LogRichLoop(_)
LogRichLoop(w) ==
    IF record_separator \notin Range(w.log_data) THEN w
    ELSE LET i == First(w.log_data, record_separator)
             log == SubSeq(w.log_data, 1, i - 1)
             w1 == LogRecord([w EXCEPT !.log_data = SubSeq(@, i + 1, Len(@))], log)
         IN  IF w1.raised # "none" THEN w1 ELSE LogRichLoop(w1)

\* log(), self._log_rich true: the chunk joins the buffer, then the loop.
LogRich(w, data) == LogRichLoop([w EXCEPT !.log_data = @ \o data])

\* A plausible slip: the rows that are empty once stripped are not skipped.
RECURSIVE LogRows_KeepsEmpty(_, _)
LogRows_KeepsEmpty(w, rows) ==
    IF rows = <<>> THEN w
    ELSE LET row == strip(Head(rows))
         IN  LogRows_KeepsEmpty(
                 [w EXCEPT !.sink = Append(@, LogEvent("info", row, None, EmptyDict)),
                           !.log_entries = DequeAppend(@, StrEntry(row)),
                           !.published = Append(@, row)],
                 Tail(rows))

\* log(), the for loop of the plain branch: one row after the other.
RECURSIVE LogRows(_, _)
LogRows(w, rows) ==
    IF rows = <<>> THEN w
    ELSE LET row == strip(Head(rows))
         IN  IF row = <<>> THEN LogRows(w, Tail(rows))
             ELSE LogRows([w EXCEPT
                             !.sink = Append(@, LogEvent("info", row, None, EmptyDict)),
                             !.log_entries = DequeAppend(@, StrEntry(row)),
                             !.published = Append(@, row)],
                          Tail(rows))

\* log(), self._log_rich false: the chunk escaped and split into rows.
LogPlain(w, data) == LogRows(w, split(escape_formatting(data), linesep))

\* A plausible slip: the marker is looked for until it has been seen.
LogFD2_Redetects(w, data) ==
    IF w.log_rich # "True"
    THEN IF SubSeq(data, 1, Min(Len(data), Len(cb_logging_aware))) = cb_logging_aware
         THEN [w EXCEPT !.log_rich = "True", !.log_data = <<>>]
         ELSE LogPlain([w EXCEPT !.log_rich = "False"], data)
    ELSE LogRich(w, data)

\* log(), childFD == 2, after decoding: the first chunk decides the mode.
LogFD2(w, data) ==
    IF w.log_rich = "None"
    THEN IF SubSeq(data, 1, Min(Len(data), Len(cb_logging_aware))) = cb_logging_aware
         THEN [w EXCEPT !.log_rich = "True", !.log_data = <<>>]
         ELSE LogPlain([w EXCEPT !.log_rich = "False"], data)
    ELSE IF w.log_rich = "True" THEN LogRich(w, data)
    ELSE LogPlain(w, data)

\* WorkerProcess.log(childFD, data), data being bytes.
log(w, childFD, data) ==
    LET w0 == [w EXCEPT !.raised = "none"]
    IN  IF childFD = 1 THEN LogFD1(w0, data)
        ELSE IF ~Utf8Valid(data) THEN Raise(w0, "UnicodeDecodeError")
        ELSE LogFD2(w0, Utf8Text(data))

\* WorkerProcess._dump_remaining_log: what is left in the buffer is logged.
RECURSIVE WarnAll(_, _)
WarnAll(w, lines) ==
    IF lines = <<>> THEN w
    ELSE WarnAll([w EXCEPT !.sink = Append(@, LogEvent("warn",
                                 escape_formatting(Head(lines)), None, EmptyDict))],
                 Tail(lines))

\* A plausible slip: the buffer is logged as it is, in one piece.
dump_remaining_log_Unsplit(w) ==
    IF w.log_rich = "True" /\ w.log_data # <<>>
    THEN WarnAll([w EXCEPT !.sink = Append(@, LogEvent("warn",
                        <<"REMAINING LOG BUFFER AFTER EXIT FOR PID">>, None, EmptyDict))],
                 <<w.log_data>>)
    ELSE w

dump_remaining_log(w) ==
    IF w.log_rich = "True" /\ w.log_data # <<>>
    THEN WarnAll([w EXCEPT !.sink = Append(@, LogEvent("warn",
                        <<"REMAINING LOG BUFFER AFTER EXIT FOR PID">>, None, EmptyDict))],
                 split(w.log_data, linesep))
    ELSE w

\* A plausible slip: the deque itself is returned, not a copy of it.
getlog_alias(w) == [taken |-> TRUE, shared |-> TRUE, items |-> w.log_entries]

\* WorkerProcess.getlog(): a new list of the entries.
getlog(w) == [taken |-> TRUE, shared |-> FALSE, items |-> w.log_entries]

(***************************************************************************)
(* The status of the worker, which the controller sets.                    *)
(***************************************************************************)
StatusRank(st) ==
    CASE st = "starting" -> 0
      [] st = "connected" -> 1
      [] st = "started" -> 2
      [] OTHER -> 3

\* A plausible slip: the reported status is stored as it comes.
Advance_Overwrites(st, to) == to

\* A status report of the supervisor: the status never moves backward.
Advance(st, to) == IF StatusRank(to) > StatusRank(st) THEN to ELSE st

(***************************************************************************)
(* The child's output.                                                     *)
(***************************************************************************)
RecOk == <<"{", "N", ",", "T", ",", "L", "}", "RS">>

RecUtf == <<"{", "U1", "U2", ",", "NL", "W", ",", "X", "}", "RS">>

RecNoLevel == <<"{", "T", "}", "RS">>

RecNoText == <<"{", "L", "}", "RS">>

RecInt == <<"1", "RS">>

RecBad == <<"{", "T", "RS">>

RecBogus == <<"{", "T", ",", "B", "}", "RS">>

GoodRecords == {RecOk, RecUtf}

BadRecords == {RecNoLevel, RecNoText, RecInt, RecBad, RecBogus}

Records == GoodRecords \cup BadRecords

\* The runs of records of R that are at most n symbols long.
RECURSIVE RecordRuns(_, _)
RecordRuns(R, n) ==
    {<<>>} \cup UNION {{<<r>> \o t : t \in RecordRuns(R, n - Len(r))} :
                         r \in {x \in R : Len(x) <= n}}

\* What a child that logs records writes after the marker: records, up to n
\* symbols, at most one of them not a well-formed event.
RichStreams(n) ==
    {Concat(q) : q \in {x \in RecordRuns(Records, n) :
                          Cardinality({i \in 1..Len(x) : x[i] \in BadRecords}) <= 1}}

\* What a child that logs text writes; the two-byte character is the first
\* of its line.
PlainStreams ==
    {<<"a", "NL", "NL", "a", "NL">>,
     <<"SP", "a", "SP", "NL", "SP", "RS", "NL", "{", "a">>,
     <<"U1", "U2", "a", "NL">>}

\* What a child writes first: text, or the marker and a record, or the
\* marker twice and text.
FirstStreams ==
    PlainStreams
    \cup {cb_logging_aware \o r : r \in {RecOk, RecNoLevel, RecBad}}
    \cup {cb_logging_aware \o cb_logging_aware \o <<"a", "NL">>}

\* What a child writes that logs an event of unknown level among others.
BurstStreams ==
    {RecOk \o RecBogus \o RecOk,
     RecBogus \o RecUtf \o RecOk,
     RecBogus \o RecOk \o RecUtf}

\* The keeplog argument: None, or a number of entries.
KeepLogs == {[given |-> FALSE, n |-> 0], [given |-> TRUE, n |-> 2]}

\* What a child writes to fd 1.
RawChunks == {<<"a", "NL", "a">>, <<"M1", "M2", "RS">>}

(***************************************************************************)
(* The state machine.                                                      *)
(***************************************************************************)
Worker ==
    [log_rich |-> log_rich, log_data |-> log_data, log_entries |-> log_entries,
     sink |-> sink, published |-> published, raised |-> raised]

Becomes(w) ==
    /\ log_rich' = w.log_rich
    /\ log_data' = w.log_data
    /\ log_entries' = w.log_entries
    /\ sink' = w.sink
    /\ published' = w.published
    /\ raised' = w.raised

\* WorkerProcess.__init__
Constructed ==
    /\ status = "starting"
    /\ exit_called = FALSE
    /\ log_rich = "None"
    /\ log_data = <<>>
    /\ log_entries = <<>>
    /\ sink = <<>>
    /\ published = <<>>
    /\ raised = "none"
    /\ returned = [taken |-> FALSE, shared |-> FALSE, items |-> <<>>]
    /\ fed = <<>>
    /\ richfed = <<>>
    /\ op = "init"
    /\ raw = <<>>

Init ==
    /\ Constructed
    /\ keeplog \in KeepLogs
    /\ pending \in FirstStreams
    /\ budget = MaxOps

\* The worker of a child that has written the marker, and nothing else yet.
InitRich ==
    /\ status = "starting"
    /\ exit_called = FALSE
    /\ log_rich = "True"
    /\ log_data = <<>>
    /\ log_entries = <<>>
    /\ sink = <<>>
    /\ published = <<>>
    /\ raised = "none"
    /\ returned = [taken |-> FALSE, shared |-> FALSE, items |-> <<>>]
    /\ fed = cb_logging_aware
    /\ richfed = <<>>
    /\ op = "log2"
    /\ raw = <<>>
    /\ keeplog = [given |-> FALSE, n |-> 0]
    /\ pending \in RichStreams(MaxStream)
    /\ budget = MaxOps

\* The worker of a child that has written one chunk to fd 1 again and again,
\* and nothing to fd 2 yet: the history lacks one entry to be full.
InitFull ==
    /\ status = "starting"
    /\ exit_called = FALSE
    /\ log_rich = "None"
    /\ log_data = <<>>
    /\ \E c \in RawChunks :
          /\ raw = c
          /\ log_entries = [i \in 1..(maxlen - 1) |-> StrEntry(repr(c))]
          /\ sink = [i \in 1..(maxlen - 1) |->
                       LogEvent("info", repr(c), <<"FD1">>, EmptyDict)]
    /\ published = <<>>
    /\ raised = "none"
    /\ returned = [taken |-> FALSE, shared |-> FALSE, items |-> <<>>]
    /\ fed = <<>>
    /\ richfed = <<>>
    /\ op = "log1"
    /\ keeplog = [given |-> FALSE, n |-> 0]
    /\ pending \in FirstStreams
    /\ budget = MaxOps

\* The supervisor delivers the next n bytes of fd 2: log(2, data).
Deliver(n) ==
    LET data == SubSeq(pending, 1, n)
    IN  /\ Becomes(log(Worker, 2, data))
        /\ pending' = SubSeq(pending, n + 1, Len(pending))
        /\ fed' = fed \o data
        /\ richfed' = IF log_rich = "True" THEN richfed \o data ELSE richfed
        /\ op' = "log2"
        /\ UNCHANGED <<keeplog, status, exit_called, returned, raw, budget>>

\* The supervisor reads fd 2 as the bytes come: a short chunk, cut anywhere.
Log2 == \E n \in 1..Min(MaxChunk, Len(pending)) : Deliver(n)

\* The supervisor reads fd 2 after the child has written several records:
\* a long chunk that ends with a record.
Log2Burst ==
    \E n \in (MaxChunk + 1)..Min(MaxBurst, Len(pending)) :
        pending[n] = record_separator /\ Deliver(n)

\* The supervisor delivers bytes of fd 1: log(1, data).
Log1 ==
    /\ budget > 0
    /\ \E data \in RawChunks :
        /\ Becomes(log(Worker, 1, data))
        /\ raw' = data
    /\ op' = "log1"
    /\ budget' = budget - 1
    /\ UNCHANGED <<keeplog, status, exit_called, returned, pending, fed, richfed>>

\* The supervisor fires self.exit.  A Deferred runs its callbacks, here
\* _dump_remaining_log, when it is fired; firing it again raises.
Exit ==
    /\ budget > 0
    /\ budget' = budget - 1
    /\ op' = "exit"
    /\ IF exit_called
       THEN /\ raised' = "AlreadyCalledError"
            /\ UNCHANGED <<status, exit_called, log_rich, log_data, log_entries,
                           sink, published>>
       ELSE /\ exit_called' = TRUE
            /\ status' = Advance(status, "exited")
            /\ Becomes(dump_remaining_log([Worker EXCEPT !.raised = "none"]))
    /\ UNCHANGED <<keeplog, returned, pending, fed, richfed, raw>>

\* A caller asks for the history: getlog().
GetLog ==
    /\ budget > 0
    /\ budget' = budget - 1
    /\ returned' = getlog(Worker)
    /\ raised' = "none"
    /\ op' = "getlog"
    /\ UNCHANGED <<keeplog, status, exit_called, log_rich, log_data, log_entries,
                   sink, published, pending, fed, richfed, raw>>

\* The supervisor reports that the worker has connected or started (or,
\* out of order, that it is starting).
SetStatus ==
    /\ budget > 0
    /\ budget' = budget - 1
    /\ \E to \in {"starting", "connected", "started"} :
          /\ status' = Advance(status, to)
          /\ op' = to
    /\ raised' = "none"
    /\ UNCHANGED <<keeplog, exit_called, log_rich, log_data, log_entries, sink,
                   published, returned, pending, fed, richfed, raw>>

Next == Log2 \/ Log1 \/ Exit \/ GetLog

Spec == Init /\ [][Next]_vars

\* The worker as its child and its supervisor drive it: nobody reads the log.
NextRich == Log2 \/ Log1 \/ Exit

SpecRich == InitRich /\ [][NextRich]_vars

SpecFull == InitFull /\ [][Next]_vars

\* The worker of a child that has written the marker, and nothing else yet,
\* and goes on with several records at a time.
InitBurst ==
    /\ status = "starting"
    /\ exit_called = FALSE
    /\ log_rich = "True"
    /\ log_data = <<>>
    /\ log_entries = <<>>
    /\ sink = <<>>
    /\ published = <<>>
    /\ raised = "none"
    /\ returned = [taken |-> FALSE, shared |-> FALSE, items |-> <<>>]
    /\ fed = cb_logging_aware
    /\ richfed = <<>>
    /\ op = "log2"
    /\ raw = <<>>
    /\ keeplog = [given |-> FALSE, n |-> 0]
    /\ pending \in BurstStreams
    /\ budget = MaxOps

NextBurst == Log2 \/ Log2Burst \/ Exit

SpecBurst == InitBurst /\ [][NextBurst]_vars

\* The worker as its supervisor drives it through its life.
InitLife ==
    /\ Constructed
    /\ keeplog = [given |-> FALSE, n |-> 0]
    /\ pending \in FirstStreams
    /\ budget = MaxOps

NextLife == Log2 \/ SetStatus \/ Exit

SpecLife == InitLife /\ [][NextLife]_vars

(***************************************************************************)
(* What the claims speak of.                                               *)
(***************************************************************************)

\* The step is a call log(2, data); Log2Data is its data.
IsLog2 == op' = "log2" /\ pending' # pending

Log2Data == SubSeq(pending, 1, Len(pending) - Len(pending'))

\* The last n entries of a sequence.
LastN(s, n) == IF Len(s) <= n THEN s ELSE SubSeq(s, Len(s) - n + 1, Len(s))

IsPrefix(p, s) == Len(p) <= Len(s) /\ SubSeq(s, 1, Len(p)) = p

\* What the logger got from log(2, ..): not the chunks of fd 1.
Fd2Events(events) == SelectSeq(events, LAMBDA e : e.ns # <<"FD1">>)

\* The complete raw records of a buffer: what precedes each separator.
CompleteRecords(buf) ==
    LET parts == split(buf, record_separator)
    IN  SubSeq(parts, 1, Len(parts) - 1)

\* How a raw record reads: a well-formed event, not well-formed JSON, no
\* object, an object without text or level, or an event of unknown level.
RecordClass(rec) ==
    LET v == json_loads(rec)
    IN  IF v.kind = "ValueError" THEN "malformed"
        ELSE IF v.kind # "dict" THEN "notobject"
        ELSE IF ~({"text", "level"} \subseteq DOMAIN v.dict) THEN "nokey"
        ELSE IF ~IsLevelName(v.dict["level"]) THEN "badlevel"
        ELSE "event"

\* The event a well-formed record stands for, as the logger gets it.
EventOf(rec) ==
    LET d == json_loads(rec).dict
    IN  [level |-> d["level"][1],
         text |-> d["text"],
         ns |-> IF "namespace" \in DOMAIN d THEN d["namespace"] ELSE None,
         extra |-> [k \in (DOMAIN d) \ {"text", "level", "namespace"} |-> d[k]]]

\* The bytes are well-formed records, each ended by the separator.
IsWellFormedRun(bytes) ==
    /\ Utf8Valid(bytes)
    /\ bytes # <<>> => bytes[Len(bytes)] = record_separator
    /\ \A i \in 1..Len(CompleteRecords(Utf8Text(bytes))) :
          RecordClass(CompleteRecords(Utf8Text(bytes))[i]) = "event"

\* C1: in Structured mode, whenever the chunks given to log() so far make up
\* N well-formed records, each ended by the separator, the logger has got
\* exactly the N events of these records, in the order of the records,
\* however the bytes were cut into chunks.
C1_EventsWhateverTheChunks ==
    (log_rich = "True" /\ ~exit_called /\ IsWellFormedRun(richfed)) =>
        LET recs == CompleteRecords(Utf8Text(richfed))
        IN  Fd2Events(sink) = [i \in 1..Len(recs) |-> EventOf(recs[i])]

\* The event the logger gets for a raw record that log() does not fail on.
ExpectedEvent(rec) ==
    IF RecordClass(rec) = "event" THEN EventOf(rec)
    ELSE [level |-> "warn",
          text |-> <<"INVALID JSON: ">> \o escape_formatting(rec),
          ns |-> None,
          extra |-> EmptyDict]

\* The raw records a call log(2, data) in Structured mode finds complete.
RecordsOfCall == CompleteRecords(log_data \o Utf8Text(Log2Data))

IsRichLog2 == IsLog2 /\ log_rich = "True" /\ Utf8Valid(Log2Data)

\* C2: in Structured mode a raw record that is not well-formed, or is no
\* object, or lacks the key text or the key level, never makes log() raise:
\* the logger gets one warning for it whose text begins with
\* "INVALID JSON: ", and the records after it are decoded.
C2_ParseFailureDegrades ==
    [][(IsRichLog2 /\ \A i \in 1..Len(RecordsOfCall) :
                         RecordClass(RecordsOfCall[i]) # "badlevel")
         => /\ raised' = "none"
            /\ Len(sink') = Len(sink) + Len(RecordsOfCall)
            /\ \A i \in 1..Len(RecordsOfCall) :
                  RecordClass(RecordsOfCall[i]) # "event"
                    => /\ sink'[Len(sink) + i].level = "warn"
                       /\ IsPrefix(<<"INVALID JSON: ">>, sink'[Len(sink) + i].text)]_vars

\* The first record of the call that log() fails on, 0 if there is none.
FirstFailing(recs) ==
    LET bad == {i \in 1..Len(recs) : RecordClass(recs[i]) \notin {"event", "malformed"}}
    IN  IF bad = {} THEN 0 ELSE CHOOSE i \in bad : \A j \in bad : i <= j

\* C10: in Structured mode a record that parses, with text and level, but
\* whose level is no severity name makes the call raise
\* InvalidLogLevelError; the record is not logged (not as an "INVALID JSON"
\* warning either), not kept and not published: the logger, the history and
\* the topic got the records before it and nothing else.
C10_UnknownLevelRaises ==
    [][IsRichLog2 =>
          \A recs \in {RecordsOfCall} : \A k \in {FirstFailing(recs)} :
             (k > 0 /\ RecordClass(recs[k]) = "badlevel")
                => \A before \in {[i \in 1..(k - 1) |-> ExpectedEvent(recs[i])]} :
                      /\ raised' = "InvalidLogLevelError"
                      /\ sink' = sink \o before
                      /\ published' = published \o [i \in 1..(k - 1) |-> before[i].text]
                      /\ log_entries' =
                            LastN(log_entries \o [i \in 1..(k - 1) |->
                                                     DictEntry(before[i].extra)],
                                  maxlen)]_vars

C10_Witness ==
    /\ op = "log2"
    /\ raised = "InvalidLogLevelError"
    /\ Len(published) >= 1

IsLog1 == op' = "log1" /\ budget' # budget

IsExit == op' = "exit" /\ budget' # budget

\* The capacity of the history that the caller of the constructor asked for.
ConfiguredCapacity == IF keeplog.given THEN keeplog.n ELSE maxlen

\* Every entry log() has appended, in order, as long as the worker has not
\* exited: the logger got one event for each.
AppendedEntries ==
    [i \in 1..Len(sink) |->
        IF sink[i].ns = <<"FD1">> \/ log_rich # "True"
        THEN StrEntry(sink[i].text)
        ELSE DictEntry(sink[i].extra)]

\* C3: the history holds exactly the last min(n, K) of the n entries
\* appended so far, oldest first, K being the capacity the worker was
\* configured with (10 when none was given), and never more than K; getlog()
\* returns them.
C3_HistoryIsLastK ==
    /\ Len(log_entries) <= ConfiguredCapacity
    /\ ~exit_called => log_entries = LastN(AppendedEntries, ConfiguredCapacity)
    /\ op = "getlog" => returned.items = log_entries

\* C4: a call log(1, data) gives the logger exactly one event and the
\* history exactly one entry, both the repr() of the whole chunk, whatever
\* the mode and the bytes of the chunk, and publishes nothing.
C4_RawChunkKeptWhole ==
    [][IsLog1 =>
          /\ sink' = Append(sink, [level |-> "info", text |-> repr(raw'),
                                   ns |-> <<"FD1">>, extra |-> EmptyDict])
          /\ log_entries' = LastN(Append(log_entries, StrEntry(repr(raw'))), maxlen)
          /\ published' = published]_vars

C4_Witness ==
    /\ op = "log1"
    /\ log_rich = "True"
    /\ record_separator \in Range(raw)
    /\ Len(log_entries) = 1
    /\ published = <<>>

\* The rows of a chunk of plain text: its segments between line terminators,
\* stripped, those that are empty left out.
ExpectedRows(data) ==
    LET segs == split(escape_formatting(Utf8Text(data)), linesep)
    IN  SelectSeq([i \in 1..Len(segs) |-> strip(segs[i])], LAMBDA r : r # <<>>)

\* What a chunk handled as plain text does: one event, one entry and one
\* publication for each row, in order.
PlainEffect(data) ==
    \A rows \in {ExpectedRows(data)} :
        /\ sink' = sink \o [i \in 1..Len(rows) |->
                              [level |-> "info", text |-> rows[i],
                               ns |-> None, extra |-> EmptyDict]]
        /\ log_entries' =
              LastN(log_entries \o [i \in 1..Len(rows) |-> StrEntry(rows[i])], maxlen)
        /\ published' = published \o rows

\* C5: in PlainText mode a chunk gives exactly one entry for each segment
\* between line terminators that is not empty once stripped, in order; a
\* segment that is empty once stripped is not kept, not logged and not
\* published.
C5_OneLinePerSegment ==
    [][IsLog2 => \A data \in {Log2Data} :
                    (log_rich' = "False" /\ Utf8Valid(data)) => PlainEffect(data)]_vars

C5_Witness ==
    /\ log_rich = "False"
    /\ fed = <<"a", "NL", "NL", "a", "NL">>
    /\ published = << <<"a">>, <<"a">> >>
    /\ Len(log_entries) = 2

\* C6: when the first chunk of fd 2 is a proper prefix of the marker, the
\* call sets the mode to PlainText and handles the chunk as plain text; from
\* then on the mode stays PlainText, nothing is buffered, and every chunk of
\* fd 2 is handled as plain text, also one that begins with the marker or
\* completes it.
C6_SplitMarkerIsPlain ==
    [][/\ (IsLog2 /\ log_rich = "None")
             => \A data \in {Log2Data} :
                   (data # cb_logging_aware /\ IsPrefix(data, cb_logging_aware))
                      => (log_rich' = "False" /\ PlainEffect(data))
       /\ log_rich = "False"
             => /\ log_rich' = "False"
                /\ log_data' = log_data
                /\ IsLog2 => \A data \in {Log2Data} :
                                Utf8Valid(data) => PlainEffect(data)]_vars

C6_Witness ==
    /\ log_rich = "False"
    /\ IsPrefix(cb_logging_aware \o cb_logging_aware, fed)
    /\ IsPrefix(<< <<"M1">>, <<"M2">>, <<"M1", "M2">> >>, published)

\* C7: when the worker exits in Structured mode with an unfinished record in
\* the buffer, the logger gets the record as warnings, once; the history and
\* the topic get nothing; a second exit notification is no error and
\* changes nothing.
C7_ExitFlushesOnce ==
    [][IsExit =>
          IF ~exit_called
          THEN (log_rich = "True" /\ log_data # <<>>)
                  => /\ Len(sink') > Len(sink) + 1
                     /\ \A i \in (Len(sink) + 1)..Len(sink') : sink'[i].level = "warn"
                     /\ [i \in 1..(Len(sink') - Len(sink) - 1) |-> sink'[Len(sink) + 1 + i].text]
                           = [i \in 1..Len(split(log_data, linesep)) |->
                                 escape_formatting(split(log_data, linesep)[i])]
                     /\ log_entries' = log_entries
                     /\ published' = published
          ELSE /\ raised' = "none"
               /\ UNCHANGED <<status, log_rich, log_data, log_entries, sink, published>>]_vars

\* C8: once the worker has exited, a call of log() has no effect and raises
\* nothing: history, buffer, mode, logger and topic are as before.
C8_LogAfterExitIgnored ==
    [][(status = "exited" /\ (IsLog1 \/ IsLog2))
          => /\ raised' = "none"
             /\ UNCHANGED <<log_rich, log_data, log_entries, sink, published>>]_vars

\* The list a caller of getlog() holds, as the caller sees it.
ReturnedList == IF returned.shared THEN log_entries ELSE returned.items

\* C9: the list getlog() returned is a copy: whatever log() appends or
\* evicts afterwards, the list keeps its length and its entries.
C9_SnapshotIndependent ==
    [][(returned.taken /\ op' # "getlog") => ReturnedList' = ReturnedList]_vars

\* The list was returned full, and an entry has been evicted since.
C9_Witness ==
    /\ returned.taken
    /\ Len(ReturnedList) = maxlen
    /\ Len(log_entries) = maxlen
    /\ ReturnedList # log_entries

\* C11: the mode changes at most once: it leaves Unknown only in the call
\* of log() for the first chunk of fd 2, for Structured or PlainText, and
\* once it is Structured or PlainText no call of log() on either fd and no
\* exit notification changes it.
C11_ModeDecidedOnce ==
    [][/\ log_rich # "None" => log_rich' = log_rich
       /\ log_rich' # log_rich
             => (IsLog2 /\ fed = <<>> /\ log_rich' \in {"True", "False"})]_vars

\* The last segment of a buffer: what follows its last separator.
Remainder(buf) ==
    LET parts == split(buf, record_separator)
    IN  parts[Len(parts)]

\* C12: when the first chunk of fd 2 begins with the marker, the mode
\* becomes Structured and only the marker is dropped: what follows the marker
\* in the chunk is structured input, its complete records are decoded (the
\* logger gets their events, in order) and its unfinished tail is in the
\* buffer after the call.
C12_OnlyMarkerDiscarded ==
    [][(IsLog2 /\ log_rich = "None" /\ Utf8Valid(Log2Data)
              /\ IsPrefix(cb_logging_aware, Utf8Text(Log2Data)))
          => LET text == Utf8Text(Log2Data)
                 rest == SubSeq(text, Len(cb_logging_aware) + 1, Len(text))
                 recs == CompleteRecords(rest)
             IN  /\ log_rich' = "True"
                 /\ FirstFailing(recs) = 0
                       => /\ log_data' = Remainder(rest)
                          /\ sink' = sink \o [i \in 1..Len(recs) |->
                                                ExpectedEvent(recs[i])]]_vars

\* C13: in Structured mode, after a call log(2, data) that returns normally
\* the buffer holds no separator and is what fd 2 delivered after the last
\* separator; the call has the records it found complete logged, kept and
\* published, the buffer before the call being the beginning of the first of
\* them, and nothing for the remainder.
C13_RemainderIsBuffered ==
    [][(IsLog2 /\ log_rich = "True" /\ raised' = "none")
          => LET recs == RecordsOfCall
                 events == [i \in 1..Len(recs) |-> ExpectedEvent(recs[i])]
             IN  /\ record_separator \notin Range(log_data')
                 /\ log_data' = Utf8Text(Remainder(richfed'))
                 /\ sink' = sink \o events
                 /\ published' = published \o [i \in 1..Len(recs) |-> events[i].text]
                 /\ log_entries' =
                       LastN(log_entries \o [i \in 1..Len(recs) |->
                                                DictEntry(events[i].extra)], maxlen)]_vars

\* The worker had fd 1 delivered nothing: the logger got the events of fd 2
\* only, and the history is not looked at.
WithoutFD1 ==
    [Worker EXCEPT !.sink = Fd2Events(sink), !.log_entries = <<>>]

\* C14: a call log(1, data) leaves the mode, the buffer, the topic and the
\* events the logger got from fd 2 as they were, also when it comes before
\* the first chunk of fd 2, and its entry is the newest of the history; a
\* call log(2, data) does to the mode, the buffer, the topic and the events
\* of fd 2 what it does when fd 1 has delivered nothing, and its entries are
\* the newest of the history, in order.
C14_RawChannelApart ==
    [][/\ IsLog1 => /\ UNCHANGED <<log_rich, log_data, published>>
                    /\ Fd2Events(sink') = Fd2Events(sink)
                    /\ log_entries' =
                          LastN(Append(log_entries, StrEntry(repr(raw'))), maxlen)
       /\ IsLog2 => \A alone \in {log(WithoutFD1, 2, Log2Data)} :
                        /\ log_rich' = alone.log_rich
                        /\ log_data' = alone.log_data
                        /\ published' = alone.published
                        /\ raised' = alone.raised
                        /\ Fd2Events(sink') = alone.sink
                        /\ log_entries' =
                              LastN(log_entries \o alone.log_entries, maxlen)]_vars

\* A chunk of fd 1 that holds the marker and the separator came before the
\* first record of fd 2 was complete, another one after it.
C14_Witness ==
    /\ log_rich = "True"
    /\ op = "log1"
    /\ Len(log_entries) = 3
    /\ log_entries[1] = StrEntry(repr(<<"M1", "M2", "RS">>))
    /\ log_entries[2].type = "dict"
    /\ log_entries[3].type = "str"
    /\ Len(published) = 1

\* The step is a status report of the supervisor; op' is the status reported.
IsSetStatus == op' \in {"starting", "connected", "started"} /\ budget' # budget

\* C15: the status is starting at first and moves only forward along
\* starting, connected, started, exited: no step lowers it, a report of a
\* later status sets it, a report of the same or an earlier status and a
\* second exit notification leave it as it is, and exited is never left.
C15_StatusOnlyForward ==
    /\ status = "starting"
    /\ [][/\ StatusRank(status') >= StatusRank(status)
          /\ status = "exited" => status' = "exited"
          /\ IsSetStatus => status' = IF StatusRank(op') > StatusRank(status)
                                      THEN op' ELSE status
          /\ IsExit => status' = "exited"]_vars

\* The worker has exited and the supervisor has reported an earlier status.
C15_Witness ==
    /\ status = "exited"
    /\ op \in {"starting", "connected", "started"}

\* The texts log(2, data) publishes: nothing for a chunk that does not
\* decode or that decides for Structured, the rows of a chunk of plain text,
\* the texts of the records decoded before the call ends.
ExpectedTexts(data) ==
    IF ~Utf8Valid(data) THEN <<>>
    ELSE IF log_rich' = "False" THEN ExpectedRows(data)
    ELSE IF log_rich = "None" THEN <<>>
    ELSE LET recs == CompleteRecords(log_data \o Utf8Text(data))
             k == FirstFailing(recs)
         IN  [i \in 1..(IF k = 0 THEN Len(recs) ELSE k - 1) |->
                 ExpectedEvent(recs[i]).text]

\* C16: the topic gets, in order, the text of each row and of each event
\* that log(2, ..) adds to the history, once each and nothing but the text:
\* a call log(2, data) publishes the texts of the entries it appends, as
\* many as it appends entries and logs events; log(1, ..) and the exit
\* notification publish nothing.
C16_PublishedOncePerEntry ==
    [][/\ IsLog2 =>
             \A data \in {Log2Data} : \A texts \in {ExpectedTexts(data)} :
             LET n == Len(texts)
                 new == LastN(log_entries', n)
             IN  /\ published' = published \o texts
                 /\ Len(sink') = Len(sink) + n
                 /\ [i \in 1..n |-> sink'[Len(sink) + i].text] = texts
                 /\ Len(new) = n
                 /\ log_entries' = LastN(log_entries \o new, maxlen)
                 /\ \A i \in 1..n : new[i].type = "str" => new[i].str = texts[i]
       /\ (IsLog1 \/ IsExit) => published' = published]_vars

\* An event with a namespace has been published: its text alone.
C16_Witness ==
    /\ op = "log2"
    /\ log_rich = "True"
    /\ published = << <<"msg">> >>
    /\ Len(log_entries) = 1
    /\ sink[Len(sink)].ns = <<"ns">>

\* C17: a chunk of fd 2 that is no valid UTF-8 never makes log() raise,
\* whatever the mode: the call returns normally and has handled the chunk,
\* so that the mode is decided after it.
C17_UndecodableNeverRaises ==
    [][IsLog2 => \A data \in {Log2Data} :
                    ~Utf8Valid(data) => (raised' = "none" /\ log_rich' # "None")]_vars

\* C18: in Structured mode the history gets, for every record a call of
\* log(2, ..) decodes, well-formed or not, an entry that is an event with
\* the level and the text of the record (the warning level and the
\* "INVALID JSON: " text for a record that is not well-formed).
C18_EntryHasLevelAndText ==
    [][IsRichLog2 =>
          \A recs \in {RecordsOfCall} : \A k \in {FirstFailing(recs)} :
             \A n \in {IF k = 0 THEN Len(recs) ELSE k - 1} :
                \A new \in {LastN(log_entries', n)} :
                   /\ Len(new) = n
                   /\ \A i \in 1..n :
                         /\ new[i].type = "dict"
                         /\ {"level", "text"} \subseteq DOMAIN new[i].dict
                         /\ new[i].dict["text"] = ExpectedEvent(recs[i]).text
                         /\ new[i].dict["level"] = <<ExpectedEvent(recs[i]).level>>]_vars

\* The warnings for the segments of a buffer, one for each segment between
\* line terminators, in order.
SegmentWarnings(buf) ==
    LET segs == split(buf, linesep)
    IN  [i \in 1..Len(segs) |->
            [level |-> "warn", text |-> escape_formatting(segs[i]),
             ns |-> None, extra |-> EmptyDict]]

\* The line that announces the remaining buffer.
RemainingHeader ==
    [level |-> "warn", text |-> <<"REMAINING LOG BUFFER AFTER EXIT FOR PID">>,
     ns |-> None, extra |-> EmptyDict]

\* C19 as stated: at the first exit notification the logger gets exactly one
\* warning for each segment of the buffer between line terminators, in
\* order, and nothing else; it gets nothing when the mode is Unknown or
\* PlainText or the buffer is empty.
C19_ExitOneLinePerSegment ==
    [][(IsExit /\ ~exit_called) =>
          sink' = IF log_rich = "True" /\ log_data # <<>>
                  THEN sink \o SegmentWarnings(log_data)
                  ELSE sink]_vars

\* C19 amended: at the first exit notification the logger gets one warning
\* that announces the remaining buffer and then exactly one warning for each
\* segment of the buffer between line terminators, in order; it gets nothing
\* when the mode is Unknown or PlainText or the buffer is empty.
C19_ExitHeaderThenSegments ==
    [][(IsExit /\ ~exit_called) =>
          sink' = IF log_rich = "True" /\ log_data # <<>>
                  THEN sink \o <<RemainingHeader>> \o SegmentWarnings(log_data)
                  ELSE sink]_vars

\* The worker has exited with two segments in the buffer.
C19_Witness ==
    /\ op = "exit"
    /\ raised = "none"
    /\ log_rich = "True"
    /\ linesep \in Range(log_data)
    /\ Len(sink) >= 3
    /\ sink[Len(sink) - 2] = RemainingHeader

\* What follows the k-th separator of a buffer.
RECURSIVE AfterRecords(_, _)
AfterRecords(buf, k) ==
    IF k = 0 THEN buf
    ELSE AfterRecords(SubSeq(buf, First(buf, record_separator) + 1, Len(buf)), k - 1)

\* The events of the records of a run that are decoded before one fails.
EventsUntilFailure(recs) ==
    LET k == FirstFailing(recs)
    IN  [i \in 1..(IF k = 0 THEN Len(recs) ELSE k - 1) |-> ExpectedEvent(recs[i])]

\* C20: in Structured mode, when a call log(2, data) fails on a record of
\* unknown level, the buffer after the call is what followed the separator
\* of that record (the record is gone from it) and the records before it
\* are logged, kept and published; the complete records a call finds in the
\* buffer, left there by a failed call, are decoded by this very call, in
\* order.
C20_FailureKeepsTheRest ==
    [][IsLog2 =>
          /\ IsRichLog2 =>
                \A buf \in {log_data \o Utf8Text(Log2Data)} :
                \A recs \in {CompleteRecords(buf)} : \A k \in {FirstFailing(recs)} :
                   (k > 0 /\ RecordClass(recs[k]) = "badlevel")
                      => \A before \in {EventsUntilFailure(recs)} :
                            /\ raised' = "InvalidLogLevelError"
                            /\ log_data' = AfterRecords(buf, k)
                            /\ sink' = sink \o before
                            /\ published' = published \o [i \in 1..(k - 1) |-> before[i].text]
                            /\ log_entries' =
                                  LastN(log_entries \o [i \in 1..(k - 1) |->
                                                           DictEntry(before[i].extra)],
                                        maxlen)
          /\ (log_rich = "True" /\ record_separator \in Range(log_data))
                => \A left \in {EventsUntilFailure(CompleteRecords(log_data))} :
                      /\ IsPrefix(sink \o left, sink')
                      /\ IsPrefix(published \o [i \in 1..Len(left) |-> left[i].text],
                                  published')]_vars

====
